---- MODULE Spec2Model ----
(***************************************************************************)
(* A model of gsc.py: the Search Console fetch (fetch_gsc_data), the row   *)
(* normaliser (process_gsc_api_response), the month-over-month comparison  *)
(* (calculate_mom_metrics) and the trend loop of the Streamlit script.     *)
(*                                                                         *)
(* Conventions.  A pandas float is a record [k, n, d]: k = "num" is the    *)
(* rational n/d in lowest terms, k = "nan" is NaN, k = "inf" is +inf or    *)
(* -inf by the sign of n (floating-point rounding is not modelled).  An    *)
(* optional value (None) is the empty sequence, a present value x is <<x>>.*)
(* A date string "YYYY-MM-DD" is the triple <<Y, M, D>> of its fields; a   *)
(* triple that is no calendar date is a string pandas cannot parse.  A     *)
(* monthly period is its ordinal 12 * year + (month - 1).                  *)
(***************************************************************************)
EXTENDS Integers, Sequences, FiniteSets, TLC

VARIABLES
    pc,                   \* position of the script or of the call under study
    credentials,          \* 'credentials' in st.session_state
    api_faults,           \* what the next API calls do: "ok" or the raised message
    api_requests,         \* the requests sent to the API so far, each with its answer
    site_rows,            \* the rows the API holds for the queried range
    raw_data,             \* what fetch_gsc_data returned
    api_data,             \* process_gsc_api_response: argument
    requested_dimensions, \* process_gsc_api_response: argument
    df_processed,         \* process_gsc_api_response: result
    df_current,           \* calculate_mom_metrics: df_current_period_processed
    df_previous,          \* calculate_mom_metrics: df_previous_period_processed
    report_level,         \* "site-level" or "page-level"
    current_agg,          \* calculate_mom_metrics: local, line 275
    previous_agg,         \* calculate_mom_metrics: local, lines 279-288
    merged_df,            \* calculate_mom_metrics: local, line 294 onwards
    mom_df,               \* calculate_mom_metrics: result
    mom_error,            \* the exception calculate_mom_metrics caught, or "none"
    today,                \* datetime.today() of the script run
    report_month_selected,\* the month picked in the sidebar
    num_months_trend,     \* the slider
    site_data,            \* the rows the API holds, per month
    i,                    \* the trend loop's index
    trend_log,            \* per finished trend step: what happened to it
    all_mom_dataframes    \* the tables collected by the trend loop

fetchVars == <<credentials, api_faults, api_requests, site_rows, raw_data>>
normVars == <<api_data, requested_dimensions, df_processed>>
momVars == <<df_current, df_previous, report_level, current_agg, previous_agg,
             merged_df, mom_df, mom_error>>
trendVars == <<today, report_month_selected, num_months_trend, site_data, i,
               trend_log, all_mom_dataframes>>
vars == <<pc, fetchVars, normVars, momVars, trendVars>>

(***************************************************************************)
(* Bounds of the model.                                                    *)
(***************************************************************************)
MaxFaults == 4
MaxCalls == 2
MaxRows == 2
MaxBatch == 3
MaxTrend == 3
MaxScript == 2

Min(a, b) == IF a < b THEN a ELSE b
Abs(x) == IF x < 0 THEN -x ELSE x
None == <<>>
Some(x) == <<x>>
SeqsUpTo(S, n) == UNION {[1..k -> S] : k \in 0..n}

RECURSIVE SelectIdx(_, _, _)
\* the subsequence of s at the indices k, k+1, ... where keep is TRUE, in order
SelectIdx(s, keep, k) ==
    IF k > Len(s) THEN <<>>
    ELSE (IF keep[k] THEN <<s[k]>> ELSE <<>>) \o SelectIdx(s, keep, k + 1)

(***************************************************************************)
(* pandas floats: exact rationals, NaN and the two infinities.             *)
(***************************************************************************)
RECURSIVE Gcd(_, _)
Gcd(a, b) == IF b = 0 THEN a ELSE Gcd(b, a % b)
\* the float n/d (d # 0), in lowest terms with a positive denominator
Num(n, d) ==
    LET g == Gcd(Abs(n), Abs(d))
        sgn == IF d < 0 THEN -1 ELSE 1
    IN  [k |-> "num", n |-> (sgn * n) \div g, d |-> (sgn * d) \div g]
NaN == [k |-> "nan", n |-> 0, d |-> 1]
PosInf == [k |-> "inf", n |-> 1, d |-> 1]
NegInf == [k |-> "inf", n |-> -1, d |-> 1]
Zero == Num(0, 1)
Hundred == Num(100, 1)
Sign(x) == IF x.n > 0 THEN 1 ELSE IF x.n < 0 THEN -1 ELSE 0
Signed(sg) == IF sg > 0 THEN PosInf ELSE IF sg < 0 THEN NegInf ELSE NaN

FAdd(a, b) ==
    IF a.k = "nan" \/ b.k = "nan" THEN NaN
    ELSE IF a.k = "inf" /\ b.k = "inf" THEN (IF a.n = b.n THEN a ELSE NaN)
    ELSE IF a.k = "inf" THEN a
    ELSE IF b.k = "inf" THEN b
    ELSE Num(a.n * b.d + b.n * a.d, a.d * b.d)
FNeg(a) == IF a.k = "nan" THEN NaN ELSE [a EXCEPT !.n = -a.n]
FSub(a, b) == FAdd(a, FNeg(b))
FMul(a, b) ==
    IF a.k = "nan" \/ b.k = "nan" THEN NaN
    ELSE IF a.k = "inf" \/ b.k = "inf" THEN Signed(Sign(a) * Sign(b))
    ELSE Num(a.n * b.n, a.d * b.d)
\* numpy float division: x/0 is an infinity or NaN, never an exception
FDiv(a, b) ==
    IF a.k = "nan" \/ b.k = "nan" THEN NaN
    ELSE IF a.k = "inf" /\ b.k = "inf" THEN NaN
    ELSE IF a.k = "inf" THEN (IF b.n < 0 THEN FNeg(a) ELSE a)
    ELSE IF b.k = "inf" THEN Zero
    ELSE IF b.n = 0 THEN Signed(Sign(a))
    ELSE Num(a.n * b.d, a.d * b.n)
\* a > b and a < b on floats (False when either is NaN)
FGt(a, b) ==
    /\ a.k # "nan" /\ b.k # "nan"
    /\ a # b
    /\ \/ a = PosInf
       \/ b = NegInf
       \/ a.k = "num" /\ b.k = "num" /\ a.n * b.d > b.n * a.d
FLt(a, b) == FGt(b, a)
\* Series.fillna(v) and Series.replace(old, new), per element
fillna(x, v) == IF x = NaN THEN v ELSE x
replace(x, old, new) == IF x = old THEN new ELSE x

(***************************************************************************)
(* Calendar dates and monthly periods.                                     *)
(***************************************************************************)
IsLeap(y) == (y % 4 = 0 /\ y % 100 # 0) \/ y % 400 = 0
DaysInMonth(y, m) ==
    IF m = 2 THEN (IF IsLeap(y) THEN 29 ELSE 28)
    ELSE IF m \in {4, 6, 9, 11} THEN 30 ELSE 31
\* the string "Y-M-D" names a calendar date
IsCalendarDate(s) ==
    /\ Len(s) = 3
    /\ s[1] >= 1 /\ s[2] \in 1..12
    /\ s[3] >= 1 /\ s[3] <= DaysInMonth(s[1], s[2])
\* Series.dt.to_period('M')
to_period(date) == 12 * date[1] + (date[2] - 1)
PeriodYear(p) == p \div 12
PeriodMonth(p) == (p % 12) + 1

(***************************************************************************)
(* process_gsc_api_response.  A raw row is [keys, clicks, impressions,     *)
(* ctr, position]; keys is None when the row carries no 'keys' list.  A    *)
(* DataFrame is [has_page, rows]: has_page says that it has a 'page'       *)
(* column; pd.DataFrame() is EmptyFrame.                                   *)
(***************************************************************************)
EmptyFrame == [has_page |-> FALSE, rows |-> <<>>]

\* line 208: df['keys'].apply(lambda x: x[i] if len(x) > i else None); len()
\* of a missing 'keys' raises TypeError, and line 211 then sets the whole
\* column to None
ExtractDimension(data, idx) ==
    IF \E j \in DOMAIN data : data[j].keys = None
    THEN [j \in DOMAIN data |-> None]
    ELSE [j \in DOMAIN data |->
            LET x == data[j].keys[1]
            IN  IF Len(x) > idx - 1 THEN Some(x[idx]) ELSE None]

\* the position of dimension name dim in dims, 0 when it is not requested
DimIndex(dims, dim) ==
    IF \E j \in DOMAIN dims : dims[j] = dim
    THEN CHOOSE j \in DOMAIN dims : dims[j] = dim
    ELSE 0

\* pd.to_numeric(errors='coerce') of one value: a value that is no number
\* (k = "str") becomes NaN
to_numeric(x) == IF x.k = "str" THEN NaN ELSE x

\* line 222: pd.to_datetime(errors='coerce') of one value; None is NaT
to_datetime(v) ==
    IF v # None /\ IsCalendarDate(v[1]) THEN Some(v[1]) ELSE None

process_gsc_api_response(data, dims) ==
    IF data = <<>> THEN EmptyFrame
    ELSE IF DimIndex(dims, "date") = 0 THEN EmptyFrame
    ELSE LET dates == ExtractDimension(data, DimIndex(dims, "date"))
             pages == IF DimIndex(dims, "page") = 0
                      THEN [j \in DOMAIN data |-> None]
                      ELSE ExtractDimension(data, DimIndex(dims, "page"))
             Row(j) == [index |-> j - 1,
                        date |-> to_datetime(dates[j])[1],
                        month_year |-> to_period(to_datetime(dates[j])[1]),
                        page |-> pages[j],
                        clicks |-> to_numeric(data[j].clicks),
                        impressions |-> to_numeric(data[j].impressions),
                        position |-> to_numeric(data[j].position),
                        ctr |-> FMul(to_numeric(data[j].ctr), Hundred)]
             all == [j \in DOMAIN data |-> j]
             valid == [j \in DOMAIN data |-> to_datetime(dates[j]) # None]
             kept == SelectIdx(all, valid, 1)
         IN  IF kept = <<>> THEN EmptyFrame
             ELSE [has_page |-> DimIndex(dims, "page") # 0,
                   rows |-> [n \in DOMAIN kept |-> Row(kept[n])]]

(***************************************************************************)
(* calculate_mom_metrics.  An aggregated table is a sequence of rows       *)
(* [month_year, page, clicks, impressions, position, ctr], page being None *)
(* when the table is grouped by month alone.                               *)
(***************************************************************************)
Metrics == <<"clicks", "impressions", "position", "ctr">>
\* URLs in their sort order
Pages == <<"/a", "/b">>
PageRank(p) == IF p = None THEN 0 ELSE CHOOSE j \in DOMAIN Pages : Pages[j] = p[1]

\* lines 248-250: group by page too when asked to and the column is there
GroupByPage(df_cur, level) == level = "page-level" /\ df_cur.has_page

GroupKey(row, by_page) ==
    [month_year |-> row.month_year, page |-> IF by_page THEN row.page ELSE None]
KeyLess(a, b) ==
    \/ a.month_year < b.month_year
    \/ a.month_year = b.month_year /\ PageRank(a.page) < PageRank(b.page)
RECURSIVE SortKeys(_)
\* groupby(sort=True): the group keys in ascending order
SortKeys(S) ==
    IF S = {} THEN <<>>
    ELSE LET lo == CHOOSE a \in S : \A b \in S \ {a} : KeyLess(a, b)
         IN  <<lo>> \o SortKeys(S \ {lo})

RECURSIVE SumOf(_, _, _)
\* Series.sum() of column col over rows, NaN skipped
SumOf(rows, col, k) ==
    IF k > Len(rows) THEN Zero
    ELSE FAdd(fillna(rows[k][col], Zero), SumOf(rows, col, k + 1))
RECURSIVE CountOf(_, _, _)
CountOf(rows, col, k) ==
    IF k > Len(rows) THEN 0
    ELSE (IF rows[k][col] = NaN THEN 0 ELSE 1) + CountOf(rows, col, k + 1)
\* Series.mean(): NaN skipped, NaN when nothing is left
MeanOf(rows, col) ==
    IF CountOf(rows, col, 1) = 0 THEN NaN
    ELSE FDiv(SumOf(rows, col, 1), Num(CountOf(rows, col, 1), 1))

\* lines 268-270: ctr recomputed from the summed clicks and impressions
RecalculateCtr(clicks, impressions) ==
    fillna(FMul(FDiv(clicks, replace(impressions, Zero, NaN)), Hundred), Zero)

\* (mutant) the mean of the rows' own ctr
GroupCtrAveraged(g) == MeanOf(g, "ctr")
\* the ctr of one group of rows: from the sums, not from the rows' own ctr
GroupCtr(g) == RecalculateCtr(SumOf(g, "clicks", 1), SumOf(g, "impressions", 1))

\* (mutant) the rewrite of lines 258-262 followed by an in-place fillna(0)
CoerceMetricsFilled(df) ==
    [df EXCEPT !.rows = [n \in DOMAIN df.rows |->
        [df.rows[n] EXCEPT !.clicks = fillna(to_numeric(@), Zero),
                           !.impressions = fillna(to_numeric(@), Zero),
                           !.position = fillna(to_numeric(@), Zero)]]]

\* lines 258-262: the metric columns of the caller's table, rewritten in place
CoerceMetrics(df) ==
    [df EXCEPT !.rows = [n \in DOMAIN df.rows |->
        [df.rows[n] EXCEPT !.clicks = to_numeric(@), !.impressions = to_numeric(@),
                           !.position = to_numeric(@)]]]

aggregate_monthly_data(df, by_page) ==
    IF df.rows = <<>> \/ (by_page /\ ~df.has_page) THEN <<>>
    ELSE LET rows == CoerceMetrics(df).rows
             \* groupby drops the rows whose key is missing
             Keyed(n) == ~by_page \/ rows[n].page # None
             keys == SortKeys({GroupKey(rows[n], by_page) : n \in {m \in DOMAIN rows : Keyed(m)}})
             Group(key) ==
                 SelectIdx(rows, [n \in DOMAIN rows |->
                                    Keyed(n) /\ GroupKey(rows[n], by_page) = key], 1)
             Agg(key) ==
                 [month_year |-> key.month_year, page |-> key.page,
                  clicks |-> SumOf(Group(key), "clicks", 1),
                  impressions |-> SumOf(Group(key), "impressions", 1),
                  position |-> MeanOf(Group(key), "position"),
                  ctr |-> GroupCtr(Group(key))]
         IN  [n \in DOMAIN keys |-> Agg(keys[n])]

\* (mutant) the previous period's month left as it is
ShiftMonthNot(p) == p
\* line 285: the previous period's month, shifted to the month it is compared in
ShiftMonth(p) == p + 1

\* lines 279-288: the previous table with its metrics renamed prev_* and its
\* month shifted
PreparePrevious(previous_agg_raw) ==
    [n \in DOMAIN previous_agg_raw |->
        LET r == previous_agg_raw[n]
        IN  [month_year |-> ShiftMonth(r.month_year), page |-> r.page,
             prev_clicks |-> r.clicks, prev_impressions |-> r.impressions,
             prev_position |-> r.position, prev_ctr |-> r.ctr]]

\* the merged row of a current row and a previous row (None: no match)
MergedRow(c, p) ==
    [month_year |-> c.month_year, page |-> c.page,
     clicks |-> c.clicks, impressions |-> c.impressions,
     position |-> c.position, ctr |-> c.ctr,
     prev_clicks |-> IF p = None THEN NaN ELSE p[1].prev_clicks,
     prev_impressions |-> IF p = None THEN NaN ELSE p[1].prev_impressions,
     prev_position |-> IF p = None THEN NaN ELSE p[1].prev_position,
     prev_ctr |-> IF p = None THEN NaN ELSE p[1].prev_ctr]

\* the join condition of line 294: equal on every grouping column
JoinsWith(c, p) == c.month_year = p.month_year /\ c.page = p.page

RECURSIVE MergeLeft(_, _, _)
\* line 294: pd.merge(current_agg, previous_agg, on=group_by_cols, how='left')
MergeLeft(cur, prev, k) ==
    IF k > Len(cur) THEN <<>>
    ELSE LET found == SelectIdx(prev, [n \in DOMAIN prev |-> JoinsWith(cur[k], prev[n])], 1)
             out == IF found = <<>> THEN <<MergedRow(cur[k], None)>>
                    ELSE [n \in DOMAIN found |-> MergedRow(cur[k], Some(found[n]))]
         IN  out \o MergeLeft(cur, prev, k + 1)

PrevCol(metric) ==
    CASE metric = "clicks" -> "prev_clicks"
      [] metric = "impressions" -> "prev_impressions"
      [] metric = "position" -> "prev_position"
      [] metric = "ctr" -> "prev_ctr"
MomCol(metric) ==
    CASE metric = "clicks" -> "clicks_mom"
      [] metric = "impressions" -> "impressions_mom"
      [] metric = "position" -> "position_mom"
      [] metric = "ctr" -> "ctr_mom"

\* lines 306-315: (numerator / denominator) * 100 of one merged row
RatioMom(row, metric) ==
    LET cur == row[metric]
        prev == row[PrevCol(metric)]
        numerator == IF metric = "position"
                     THEN FSub(fillna(prev, PosInf), fillna(cur, PosInf))
                     ELSE FSub(fillna(cur, Zero), fillna(prev, Zero))
        denominator == IF metric = "position"
                       THEN replace(fillna(prev, PosInf), PosInf, NaN)
                       ELSE replace(fillna(prev, Zero), Zero, NaN)
    IN  FMul(FDiv(numerator, denominator), Hundred)

\* the Python literal 0
IntZero == [k |-> "int", n |-> 0, d |-> 1]
(* scalar & Series[bool], that is Series.__rand__(scalar).  Python's & binds *)
(* tighter than ==, so lines 322 and 323 evaluate `0 & (...)` and            *)
(* `float('inf') & (...)` first.  pandas and-s an int scalar bitwise with    *)
(* the booleans and casts the result back to bool; for a float scalar it     *)
(* raises TypeError ("Cannot perform 'rand_' with a dtyped [bool] array and  *)
(* scalar of type [bool]").                                                  *)
rand_(scalar, series) ==
    IF scalar.k = "int"
    THEN [error |-> "none", v |-> [j \in DOMAIN series |-> series[j] /\ scalar.n % 2 = 1]]
    ELSE [error |-> "TypeError", v |-> <<>>]
\* a bool compared with a float by ==
BoolAsFloat(b) == IF b THEN Num(1, 1) ELSE Zero

\* the row indexer of line 322:
\* prev.fillna(0) == (0 & (cur.fillna(0) > 0) & (metric != 'position'))
NewMask(merged, metric) ==
    LET positive == [j \in DOMAIN merged |-> FGt(fillna(merged[j][metric], Zero), Zero)]
        anded == rand_(IntZero, positive)
    IN  IF anded.error # "none" THEN anded
        ELSE [error |-> "none",
              v |-> [j \in DOMAIN merged |->
                       fillna(merged[j][PrevCol(metric)], Zero)
                         = BoolAsFloat(anded.v[j] /\ metric # "position")]]

\* the row indexer of line 323:
\* prev.fillna(inf) == (float('inf') & (cur.fillna(inf) < inf) & (metric == 'position'))
NewPositionMask(merged, metric) ==
    LET finite == [j \in DOMAIN merged |-> FLt(fillna(merged[j][metric], PosInf), PosInf)]
        anded == rand_(PosInf, finite)
    IN  IF anded.error # "none" THEN anded
        ELSE [error |-> "none",
              v |-> [j \in DOMAIN merged |->
                       fillna(merged[j][PrevCol(metric)], PosInf)
                         = BoolAsFloat(anded.v[j] /\ metric = "position")]]

\* merged_df[col] = values
SetColumn(merged, col, values) ==
    [j \in DOMAIN merged |-> (col :> values[j]) @@ merged[j]]

RECURSIVE MomLoop(_, _)
\* lines 297-327, from the m-th metric on: the table with its *_mom columns,
\* or the table as it was when an exception left the loop
MomLoop(merged, m) ==
    IF m > Len(Metrics) THEN [error |-> "none", df |-> merged]
    ELSE LET metric == Metrics[m]
             ratio == [j \in DOMAIN merged |-> RatioMom(merged[j], metric)]
             at315 == SetColumn(merged, MomCol(metric), ratio)
             new == NewMask(at315, metric)
             at322 == SetColumn(at315, MomCol(metric),
                        [j \in DOMAIN merged |->
                           IF new.v[j] THEN Hundred ELSE ratio[j]])
             newpos == NewPositionMask(at322, metric)
             at323 == SetColumn(at322, MomCol(metric),
                        [j \in DOMAIN merged |->
                           IF newpos.v[j] THEN Hundred ELSE at322[j][MomCol(metric)]])
             at325 == SetColumn(at323, MomCol(metric),
                        [j \in DOMAIN merged |-> fillna(at323[j][MomCol(metric)], Zero)])
         IN  IF new.error # "none" THEN [error |-> new.error, df |-> at315]
             ELSE IF newpos.error # "none" THEN [error |-> newpos.error, df |-> at322]
             ELSE MomLoop(at325, m + 1)

(* calculate_mom_metrics, as the step that runs it: mom_df' is the returned *)
(* table; current_agg', previous_agg' and merged_df' are its locals when it *)
(* returned; df_current' and df_previous' are the caller's two tables as    *)
(* the in-place writes of aggregate_monthly_data left them; mom_error' is   *)
(* the exception the outer handler (lines 330-332) caught.                  *)
calculate_mom_metrics(cur, prev, level) ==
    \E by_page \in {GroupByPage(cur, level)} :
    \E cagg \in {aggregate_monthly_data(cur, by_page)} :
    \E pagg \in {PreparePrevious(aggregate_monthly_data(prev, by_page))} :
        /\ df_current' = IF cur.rows = <<>> \/ (by_page /\ ~cur.has_page)
                         THEN cur ELSE CoerceMetrics(cur)
        /\ df_previous' = IF prev.rows = <<>> \/ (by_page /\ ~prev.has_page)
                          THEN prev ELSE CoerceMetrics(prev)
        /\ current_agg' = cagg
        /\ previous_agg' = pagg
        /\ IF cagg = <<>>
           THEN /\ merged_df' = <<>>
                /\ mom_df' = EmptyFrame
                /\ mom_error' = "none"
           ELSE \E merged \in {MergeLeft(cagg, pagg, 1)} :
                \E loop \in {MomLoop(merged, 1)} :
                    /\ merged_df' = loop.df
                    /\ mom_df' = IF loop.error # "none" THEN EmptyFrame
                                 ELSE [has_page |-> by_page, rows |-> loop.df]
                    /\ mom_error' = loop.error

(***************************************************************************)
(* The Search Console API as the fetch sees it.                            *)
(***************************************************************************)
row_limit == 25000

\* messages of the exceptions service...execute() raises
RateLimited == "rate limit exceeded"
TransportError == "internal error"
InvalidGrant == "invalid_grant"
TokenRevoked == "token has been revoked"
FaultMessages == {RateLimited, TransportError, InvalidGrant, TokenRevoked}

\* searchanalytics().query: at most rowLimit rows from offset startRow
ExecuteQuery(rows, startRow, rowLimit) ==
    SubSeq(rows, startRow + 1, Min(Len(rows), startRow + rowLimit))

\* the test of line 184 without its second alternative
IsAuthErrorGrantOnly(e) == e = InvalidGrant

\* "invalid_grant" in str(e).lower() or "token has been revoked" in str(e).lower()
IsAuthError(e) == e \in {InvalidGrant, TokenRevoked}

\* the request body of line 171 (it sets no startRow, so the API serves from
\* offset 0), with the answer the API gave to it
RequestBody(start_date, end_date, answer) ==
    [startDate |-> start_date, endDate |-> end_date, startRow |-> 0,
     rowLimit |-> row_limit, response |-> answer]

(* fetch_gsc_data as a function of the session's credentials, the API's    *)
(* next behaviours and the rows it holds for the range.  kind is "return"  *)
(* (ret is the returned list) or "rerun" (st.rerun() left the function by  *)
(* raising, after the credentials were deleted).                           *)
fetch_gsc_data(creds, faults, rows, start_date, end_date) ==
    IF ~creds
    THEN [kind |-> "return", ret |-> <<>>, creds |-> creds, faults |-> faults,
          requests |-> <<>>]
    ELSE LET outcome == IF faults = <<>> THEN "ok" ELSE Head(faults)
             rest == IF faults = <<>> THEN <<>> ELSE Tail(faults)
             sent == <<RequestBody(start_date, end_date, outcome)>>
         IN  IF outcome = "ok"
             THEN [kind |-> "return",
                   ret |-> ExecuteQuery(rows, sent[1].startRow, sent[1].rowLimit),
                   creds |-> creds, faults |-> rest, requests |-> sent]
             ELSE IF IsAuthError(outcome)
             THEN [kind |-> "rerun", ret |-> <<>>, creds |-> FALSE,
                   faults |-> rest, requests |-> sent]
             ELSE [kind |-> "return", ret |-> <<>>, creds |-> creds,
                   faults |-> rest, requests |-> sent]

(***************************************************************************)
(* SpecFetch: one period is fetched, by up to MaxCalls calls in a row,     *)
(* from an API that holds N rows and raises a message k times first.       *)
(***************************************************************************)
ServerRows(n) == [j \in 1..n |-> j]
TotalRows == {0, row_limit - 1, row_limit, row_limit + 1, 3 * row_limit}
NoRange == <<0, 0, 0>>

IdleNorm ==
    /\ api_data = <<>>
    /\ requested_dimensions = <<>>
    /\ df_processed = EmptyFrame
IdleMom ==
    /\ df_current = EmptyFrame
    /\ df_previous = EmptyFrame
    /\ report_level = "site-level"
    /\ current_agg = <<>>
    /\ previous_agg = <<>>
    /\ merged_df = <<>>
    /\ mom_df = EmptyFrame
    /\ mom_error = "none"
IdleTrend ==
    /\ today = <<>>
    /\ report_month_selected = 0
    /\ num_months_trend = 0
    /\ site_data = <<>>
    /\ i = 0
    /\ trend_log = <<>>
    /\ all_mom_dataframes = <<>>
IdleFetch ==
    /\ credentials = TRUE
    /\ api_faults = <<>>
    /\ api_requests = <<>>
    /\ site_rows = <<>>
    /\ raw_data = <<>>

InitFetch ==
    /\ pc = "fetch"
    /\ credentials \in BOOLEAN
    /\ \E k \in 0..MaxFaults, e \in FaultMessages : api_faults = [j \in 1..k |-> e]
    /\ api_requests = <<>>
    /\ \E n \in TotalRows : site_rows = ServerRows(n)
    /\ raw_data = <<>>
    /\ IdleNorm /\ IdleMom /\ IdleTrend

\* the caller fetches the period (again)
FetchPeriod ==
    /\ pc \in {"fetch", "fetched"}
    /\ Len(api_requests) < MaxCalls
    /\ LET r == fetch_gsc_data(credentials, api_faults, site_rows, NoRange, NoRange)
       IN  /\ credentials' = r.creds
           /\ api_faults' = r.faults
           /\ api_requests' = api_requests \o r.requests
           /\ raw_data' = r.ret
           /\ pc' = IF r.kind = "rerun" THEN "rerun" ELSE "fetched"
    /\ UNCHANGED <<site_rows, normVars, momVars, trendVars>>

(***************************************************************************)
(* SpecNorm: one batch of raw rows is normalised.                          *)
(***************************************************************************)
RawRow(keys, clicks, impressions, position) ==
    [keys |-> keys, clicks |-> Num(clicks, 1), impressions |-> Num(impressions, 1),
     ctr |-> IF impressions = 0 THEN Zero ELSE Num(clicks, impressions),
     position |-> Num(position, 1)]
RawSamples ==
    { RawRow(Some(<< <<2024, 3, 1>>, "/a" >>), 10, 100, 5),   \* well formed
      RawRow(Some(<< <<2024, 3, 2>>, "/b" >>), 0, 50, 7),     \* well formed
      RawRow(Some(<< <<2024, 13, 45>>, "/a" >>), 1, 10, 3),   \* unparseable date
      RawRow(Some(<< <<2024, 3, 3>> >>), 2, 20, 4),           \* no page key
      RawRow(Some(<<>>), 3, 30, 2),                           \* empty keys list
      RawRow(None, 4, 40, 1) }                                \* no keys at all
DimensionLists == {<<"date">>, <<"date", "page">>}

InitNorm ==
    /\ pc = "process"
    /\ api_data \in SeqsUpTo(RawSamples, MaxBatch)
    /\ requested_dimensions \in DimensionLists
    /\ df_processed = EmptyFrame
    /\ IdleFetch /\ IdleMom /\ IdleTrend

ProcessResponse ==
    /\ pc = "process"
    /\ df_processed' = process_gsc_api_response(api_data, requested_dimensions)
    /\ pc' = "processed"
    /\ UNCHANGED <<api_data, requested_dimensions, fetchVars, momVars, trendVars>>

NextNorm == ProcessResponse
SpecNorm == InitNorm /\ [][NextNorm]_vars

\* the raw row carries a first key that is a calendar date
HasValidDate(r) == r.keys # None /\ Len(r.keys[1]) >= 1 /\ IsCalendarDate(r.keys[1][1])
EmittedIndexes == {df_processed.rows[n].index : n \in DOMAIN df_processed.rows}

(* C9: dropped-row robustness -- after process_gsc_api_response, every raw  *)
(* row of the batch with a valid date is emitted and only the rows that     *)
(* fail normalisation are dropped: one bad row never empties the batch.     *)
C9_DroppedRowRobustness ==
    pc = "processed" =>
        EmittedIndexes = {j - 1 : j \in {n \in DOMAIN api_data : HasValidDate(api_data[n])}}

(***************************************************************************)
(* SpecMoM: calculate_mom_metrics is applied to two processed tables.      *)
(***************************************************************************)
ProcessedRow(date, page, clicks, impressions, position) ==
    [date |-> date, month_year |-> to_period(date), page |-> page,
     clicks |-> Num(clicks, 1), impressions |-> Num(impressions, 1),
     position |-> Num(position, 1),
     ctr |-> IF impressions = 0 THEN Zero ELSE Num(100 * clicks, impressions)]
CurrentSamples ==
    { ProcessedRow(<<2024, 3, 1>>, Some("/a"), 10, 100, 5),
      ProcessedRow(<<2024, 3, 2>>, Some("/a"), 0, 50, 5),
      ProcessedRow(<<2024, 3, 3>>, Some("/b"), 0, 500, 3),
      ProcessedRow(<<2024, 4, 1>>, Some("/a"), 1000, 20000, 8),
      ProcessedRow(<<2024, 4, 2>>, Some("/b"), 0, 0, 2) }
PreviousSamples ==
    { ProcessedRow(<<2024, 2, 1>>, Some("/a"), 8, 80, 10),
      ProcessedRow(<<2024, 2, 2>>, Some("/b"), 0, 0, 6),
      ProcessedRow(<<2024, 3, 4>>, Some("/a"), 800, 25000, 10),
      ProcessedRow(<<2024, 3, 5>>, Some("/b"), 0, 0, 4) }
\* the table process_gsc_api_response makes of the rows at a report level
FrameOf(rows, level) ==
    IF rows = <<>> THEN EmptyFrame
    ELSE [has_page |-> level = "page-level",
          rows |-> [n \in DOMAIN rows |->
                     [index |-> n - 1] @@
                     [rows[n] EXCEPT !.page = IF level = "page-level" THEN @ ELSE None]]]
ReportLevels == {"site-level", "page-level"}

InitMoM ==
    /\ pc = "calculate"
    /\ report_level \in ReportLevels
    /\ \E c \in SeqsUpTo(CurrentSamples, MaxRows) : df_current = FrameOf(c, report_level)
    /\ \E p \in SeqsUpTo(PreviousSamples, MaxRows) : df_previous = FrameOf(p, report_level)
    /\ current_agg = <<>>
    /\ previous_agg = <<>>
    /\ merged_df = <<>>
    /\ mom_df = EmptyFrame
    /\ mom_error = "none"
    /\ IdleFetch /\ IdleNorm /\ IdleTrend

CalculateMom ==
    /\ pc = "calculate"
    /\ calculate_mom_metrics(df_current, df_previous, report_level)
    /\ pc' = "calculated"
    /\ UNCHANGED <<report_level, fetchVars, normVars, trendVars>>

NextMoM == CalculateMom
SpecMoM == InitMoM /\ [][NextMoM]_vars

(***************************************************************************)
(* What the comparison should report, computed from the two input tables.  *)
(***************************************************************************)
\* the groups are (month, page) at page level when the current table has
\* pages, and months otherwise
LevelByPage == report_level = "page-level" /\ df_current.has_page
KeyOfRow(r) == [month_year |-> r.month_year, page |-> IF LevelByPage THEN r.page ELSE None]
CurrentKeys == {KeyOfRow(df_current.rows[n]) : n \in DOMAIN df_current.rows}
RowsOfKey(df, key) == {n \in DOMAIN df.rows : KeyOfRow(df.rows[n]) = key}
RECURSIVE Total(_, _, _)
Total(df, S, col) ==
    IF S = {} THEN Zero
    ELSE LET n == CHOOSE m \in S : TRUE
         IN  FAdd(df.rows[n][col], Total(df, S \ {n}, col))
\* the aggregate of metric over the rows of the group key of table df
GroupValue(df, key, metric) ==
    LET S == RowsOfKey(df, key)
    IN  CASE metric \in {"clicks", "impressions"} -> Total(df, S, metric)
          [] metric = "position" -> FDiv(Total(df, S, "position"), Num(Cardinality(S), 1))
          [] metric = "ctr" ->
               IF FGt(Total(df, S, "impressions"), Zero)
               THEN FDiv(FMul(Hundred, Total(df, S, "clicks")), Total(df, S, "impressions"))
               ELSE Zero
\* the group of the previous table that belongs to the month before key's
PrevKey(key) == [key EXCEPT !.month_year = @ - 1]
HasPrev(key) == RowsOfKey(df_previous, PrevKey(key)) # {}
CurValue(key, metric) == GroupValue(df_current, key, metric)
PrevValue(key, metric) ==
    IF HasPrev(key) THEN GroupValue(df_previous, PrevKey(key), metric) ELSE NaN
ZeroOrAbsent(x) == x = Zero \/ x = NaN
\* the rows of the returned table for the group key
OutRows(key) ==
    {n \in DOMAIN mom_df.rows :
        mom_df.rows[n].month_year = key.month_year /\ mom_df.rows[n].page = key.page}
\* the returned table reports value v as the MoM of metric for the group key
Reports(key, metric, v) ==
    /\ OutRows(key) # {}
    /\ \A n \in OutRows(key) : mom_df.rows[n][MomCol(metric)] = v
MetricSet == {Metrics[m] : m \in DOMAIN Metrics}

(* C3: zero-baseline MoM -- for every metric of every compared group, when  *)
(* the previous value is 0 or absent the reported MoM is exactly 100.0 if   *)
(* the current value is positive, and exactly 0.0 if the current value is 0 *)
(* or absent too.                                                           *)
C3_ZeroBaselineMoM ==
    pc = "calculated" =>
        \A key \in CurrentKeys, metric \in MetricSet :
            /\ (ZeroOrAbsent(PrevValue(key, metric)) /\ FGt(CurValue(key, metric), Zero))
                  => Reports(key, metric, Hundred)
            /\ (ZeroOrAbsent(PrevValue(key, metric)) /\ ZeroOrAbsent(CurValue(key, metric)))
                  => Reports(key, metric, Zero)

(* C4: position polarity -- a current group with position mean 5.0 joined   *)
(* to a previous group with position mean 10.0 is reported with             *)
(* position_mom = 100.0.                                                    *)
C4_PositionPolarity ==
    pc = "calculated" =>
        \A key \in CurrentKeys :
            (CurValue(key, "position") = Num(5, 1) /\ PrevValue(key, "position") = Num(10, 1))
                => Reports(key, "position", Hundred)

\* ((a - b) / c) * 100
PercentOf(a, b, c) == FMul(FDiv(FSub(a, b), c), Hundred)

(* C5: MoM formula -- for every compared group and metric whose previous    *)
(* value is non-zero, the reported clicks, impressions and ctr MoM is       *)
(* ((current - previous) / previous) * 100 and the reported position MoM is *)
(* ((previous - current) / previous) * 100.                                 *)
C5_MoMFormula ==
    pc = "calculated" =>
        \A key \in CurrentKeys, metric \in MetricSet :
            LET c == CurValue(key, metric)
                q == PrevValue(key, metric)
            IN  ~ZeroOrAbsent(q) =>
                    Reports(key, metric,
                            IF metric = "position" THEN PercentOf(q, c, q)
                            ELSE PercentOf(c, q, q))

(* C6: left-join completeness -- whenever the current input yields at least *)
(* one group, the returned table holds every current group exactly once,    *)
(* whatever the previous input is.                                          *)
C6_LeftJoinCompleteness ==
    pc = "calculated" =>
        \A key \in CurrentKeys : Cardinality(OutRows(key)) = 1

\* the rows of the merged table (line 294) for the group key
MergedRows(key) ==
    {n \in DOMAIN merged_df :
        merged_df[n].month_year = key.month_year /\ merged_df[n].page = key.page}
\* row n of the merged table carries the aggregates of a previous group
Joined(n) == merged_df[n].prev_clicks # NaN

(* C7: month alignment -- in the merged table a current group carries the   *)
(* aggregates of a previous group exactly when the previous table has a     *)
(* group for the month immediately before (and, at page level, the same     *)
(* page), and then those aggregates are that group's: a 2024-02 previous    *)
(* row joins a 2024-03 current row and never a 2024-04 one.                 *)
C7_MonthAlignment ==
    pc = "calculated" =>
        \A key \in CurrentKeys : \A n \in MergedRows(key) :
            /\ Joined(n) <=> HasPrev(key)
            /\ Joined(n) =>
                  /\ merged_df[n].prev_clicks = PrevValue(key, "clicks")
                  /\ merged_df[n].prev_impressions = PrevValue(key, "impressions")
                  /\ merged_df[n].prev_position = PrevValue(key, "position")
C7_Witness ==
    /\ pc = "calculated"
    /\ \E n \in DOMAIN merged_df :
          /\ merged_df[n].month_year = to_period(<<2024, 3, 1>>)
          /\ Joined(n)
          /\ \E m \in DOMAIN df_previous.rows :
                df_previous.rows[m].month_year = to_period(<<2024, 2, 1>>)
    /\ \E n \in DOMAIN merged_df :
          /\ merged_df[n].month_year = to_period(<<2024, 4, 1>>)
          /\ ~Joined(n)

(* C8: CTR recomputation -- every group the monthly aggregation produces,   *)
(* of the current and of the previous table, has ctr = 100 * (sum of        *)
(* clicks) / (sum of impressions) when the impressions sum is positive and  *)
(* ctr = 0 otherwise.                                                       *)
C8_CtrRecomputation ==
    pc = "calculated" =>
        /\ \A n \in DOMAIN current_agg :
              LET key == [month_year |-> current_agg[n].month_year,
                          page |-> current_agg[n].page]
              IN  current_agg[n].ctr = GroupValue(df_current, key, "ctr")
        /\ \A n \in DOMAIN previous_agg :
              LET key == [month_year |-> previous_agg[n].month_year - 1,
                          page |-> previous_agg[n].page]
              IN  previous_agg[n].prev_ctr = GroupValue(df_previous, key, "ctr")
\* clicks = [10, 0], impressions = [100, 50]: ctr is 100 * 10 / 150, and the
\* mean of the rows' own ctr would be 5
C8_Witness ==
    /\ pc = "calculated"
    /\ \E n \in DOMAIN current_agg :
          /\ current_agg[n].clicks = Num(10, 1)
          /\ current_agg[n].impressions = Num(150, 1)
          /\ current_agg[n].ctr = Num(1000, 150)
    /\ \E n \in DOMAIN previous_agg : previous_agg[n].prev_impressions = Zero

(***************************************************************************)
(* SpecTrend: the script run started by "Fetch & Analyze MoM Data".  A     *)
(* datetime is [day, tod]: day is the ordinal of its date and tod is 0 at  *)
(* midnight and 1 later in the day.                                        *)
(***************************************************************************)
RECURSIVE DaysBeforeMonth(_, _)
DaysBeforeMonth(y, m) ==
    IF m = 1 THEN 0 ELSE DaysBeforeMonth(y, m - 1) + DaysInMonth(y, m - 1)
\* date.toordinal()
DateOrdinal(date) ==
    LET y == date[1] - 1
    IN  365 * y + (y \div 4) - (y \div 100) + (y \div 400)
        + DaysBeforeMonth(date[1], date[2]) + date[3]
Midnight(date) == [day |-> DateOrdinal(date), tod |-> 0]
\* datetime < datetime
Before(a, b) == a.day < b.day \/ (a.day = b.day /\ a.tod < b.tod)
FirstOfMonth(p) == <<PeriodYear(p), PeriodMonth(p), 1>>
LastOfMonth(p) == <<PeriodYear(p), PeriodMonth(p), DaysInMonth(PeriodYear(p), PeriodMonth(p))>>

\* lines 424-428: the months of trend step k
CurrentMonth(k) == report_month_selected - k
PreviousMonth(k) == CurrentMonth(k) - 1
\* line 433 and 436: (today - relativedelta(months=16)).replace(day=1)
SixteenMonthsAgoFirst ==
    [day |-> DateOrdinal(FirstOfMonth(to_period(today.date) - 16)), tod |-> today.tod]
\* line 434: today - timedelta(days=3)
ThreeDaysAgo == [day |-> DateOrdinal(today.date) - 3, tod |-> today.tod]
\* the check of line 436 without its second alternative
BeyondApiLimitCurrentOnly(k) ==
    Before(Midnight(FirstOfMonth(CurrentMonth(k))), SixteenMonthsAgoFirst)

\* lines 436-437
BeyondApiLimit(k) ==
    \/ Before(Midnight(FirstOfMonth(CurrentMonth(k))), SixteenMonthsAgoFirst)
    \/ Before(Midnight(FirstOfMonth(PreviousMonth(k))), SixteenMonthsAgoFirst)
\* line 440
NotYetAvailable(k) ==
    \/ Before(ThreeDaysAgo, Midnight(LastOfMonth(CurrentMonth(k))))
    \/ Before(ThreeDaysAgo, Midnight(LastOfMonth(PreviousMonth(k))))

\* lines 446-448
gsc_dimensions_for_query(level) ==
    IF level = "page-level" THEN <<"date", "page">> ELSE <<"date">>

\* the rows the API holds for month p, keyed by the requested dimensions
ApiRows(data, p, dims) ==
    IF p \in data
    THEN <<RawRow(Some(IF Len(dims) = 2 THEN <<FirstOfMonth(p), "/a">>
                       ELSE <<FirstOfMonth(p)>>), 10, 100, 5)>>
    ELSE <<>>

TodaySamples ==
    { [date |-> <<2024, 5, 15>>, tod |-> 1],
      [date |-> <<2024, 5, 2>>, tod |-> 1],
      [date |-> <<2024, 5, 15>>, tod |-> 0] }
\* how many months before today's month the selected month may lie
ReportMonthsBack == {1, 14}
Answers == {"ok"} \cup FaultMessages

InitTrend ==
    /\ pc = "loop"
    /\ credentials = TRUE
    /\ today \in TodaySamples
    /\ \E back \in ReportMonthsBack : report_month_selected = to_period(today.date) - back
    /\ num_months_trend \in 1..MaxTrend
    /\ report_level \in ReportLevels
    /\ site_data \in SUBSET {report_month_selected - k : k \in 0..num_months_trend}
    /\ api_faults \in SeqsUpTo(Answers, MaxScript)
    /\ api_requests = <<>>
    /\ site_rows = <<>>
    /\ raw_data = <<>>
    /\ i = 0
    /\ trend_log = <<>>
    /\ all_mom_dataframes = <<>>
    /\ df_current = EmptyFrame
    /\ df_previous = EmptyFrame
    /\ current_agg = <<>>
    /\ previous_agg = <<>>
    /\ merged_df = <<>>
    /\ mom_df = EmptyFrame
    /\ mom_error = "none"
    /\ IdleNorm

\* a trend step ends: its outcome and what its fetches returned are logged
EndStep(outcome, returned) ==
    /\ trend_log' = Append(trend_log, [step |-> i, outcome |-> outcome, returned |-> returned])
    /\ i' = i + 1
    /\ pc' = "loop"

\* st.rerun() inside fetch_gsc_data: the credentials are gone and the run is
\* abandoned where it stands
Rerun(f) ==
    /\ credentials' = f.creds
    /\ pc' = "rerun"
    /\ UNCHANGED <<i, trend_log, all_mom_dataframes, momVars>>

\* lines 423-497: one pass of the loop body
TrendStep ==
    /\ pc = "loop"
    /\ i < num_months_trend
    /\ IF BeyondApiLimit(i)
       THEN /\ EndStep("skipped: beyond the 16-month limit", <<>>)
            /\ UNCHANGED <<fetchVars, momVars, all_mom_dataframes>>
       ELSE IF NotYetAvailable(i)
       THEN /\ EndStep("skipped: data not yet available", <<>>)
            /\ UNCHANGED <<fetchVars, momVars, all_mom_dataframes>>
       ELSE
        \E dims \in {gsc_dimensions_for_query(report_level)} :
        \E f1 \in {fetch_gsc_data(credentials, api_faults,
                                  ApiRows(site_data, CurrentMonth(i), dims),
                                  FirstOfMonth(CurrentMonth(i)),
                                  LastOfMonth(CurrentMonth(i)))} :
          IF f1.kind = "rerun"
          THEN /\ Rerun(f1)
               /\ api_faults' = f1.faults
               /\ api_requests' = api_requests \o f1.requests
               /\ UNCHANGED <<site_rows, raw_data>>
          ELSE
            \E df_current_processed \in {process_gsc_api_response(f1.ret, dims)} :
            \E f2 \in {fetch_gsc_data(f1.creds, f1.faults,
                                      ApiRows(site_data, PreviousMonth(i), dims),
                                      FirstOfMonth(PreviousMonth(i)),
                                      LastOfMonth(PreviousMonth(i)))} :
              /\ api_faults' = f2.faults
              /\ api_requests' = api_requests \o f1.requests \o f2.requests
              /\ site_rows' = site_rows
              /\ IF f2.kind = "rerun"
                 THEN /\ Rerun(f2)
                      /\ raw_data' = f1.ret
                 ELSE
                   \E df_previous_processed \in {process_gsc_api_response(f2.ret, dims)} :
                     /\ raw_data' = f2.ret
                     /\ credentials' = f2.creds
                     /\ IF df_current_processed.rows = <<>> /\ df_previous_processed.rows = <<>>
                        THEN /\ EndStep("no data found", <<f1.ret, f2.ret>>)
                             /\ UNCHANGED <<momVars, all_mom_dataframes>>
                        ELSE /\ calculate_mom_metrics(df_current_processed,
                                                      df_previous_processed, report_level)
                             /\ report_level' = report_level
                             /\ IF mom_df'.rows # <<>>
                                THEN /\ all_mom_dataframes' = Append(all_mom_dataframes, mom_df')
                                     /\ EndStep("reported", <<f1.ret, f2.ret>>)
                                ELSE /\ all_mom_dataframes' = all_mom_dataframes
                                     /\ EndStep("could not compute", <<f1.ret, f2.ret>>)
    /\ UNCHANGED <<today, report_month_selected, num_months_trend, site_data, normVars>>

\* lines 499-517: the loop is over
FinishTrend ==
    /\ pc = "loop"
    /\ i = num_months_trend
    /\ pc' = "done"
    /\ UNCHANGED <<fetchVars, normVars, momVars, trendVars>>

NextTrend == TrendStep \/ FinishTrend
SpecTrend == InitTrend /\ [][NextTrend]_vars

\* the responses that make fetch_gsc_data drop the credentials and rerun
AuthMessages == {InvalidGrant, TokenRevoked}
ConfinedMessages == {RateLimited, TransportError}
Faulted(r) == r.response # "ok"
\* the steps logged so far that fetched (the skipped ones return nothing)
Fetched(k) == trend_log[k].returned # <<>>
\* the position in api_requests of the current-period request of logged step k
CurrentRequestOf(k) ==
    2 * Cardinality({j \in 1..k : Fetched(j)}) - 1
\* what an unfaulted request of a step must return: the rows the API holds
AnsweredFromApi(r, p, ret) ==
    /\ r.startDate = FirstOfMonth(p)
    /\ r.endDate = LastOfMonth(p)
    /\ ret = IF Faulted(r) THEN <<>>
             ELSE ApiRows(site_data, p, gsc_dimensions_for_query(report_level))

\* C10 (as stated): a fault raised by the API call in one trend step, an
\* auth error such as a revoked token included, is confined to that step:
\* the loop is never abandoned because of it, and once the run is over
\* every trend step has been processed.
C10_FaultIsolation ==
    (\E k \in 1..Len(api_requests) : Faulted(api_requests[k])) =>
        /\ pc \in {"loop", "done"}
        /\ pc = "done" => Len(trend_log) = num_months_trend

\* C10 (amended): a rate-limit or transport fault is confined to the fetch
\* it hit: that fetch returns no rows, the credentials stay, every step is
\* logged in order and every fetching step sends its two requests and gets
\* the API's rows for each unfaulted one, whatever happened before.  An
\* auth error (invalid_grant, revoked token) is not confined: it is the last
\* request of the run, the credentials are deleted and the script reruns,
\* leaving the remaining steps unprocessed.
C10_FaultIsolationAmended ==
    /\ \A k \in 1..Len(api_requests) :
          api_requests[k].response \in AuthMessages <=>
              (k = Len(api_requests) /\ pc = "rerun")
    /\ pc = "rerun" => ~credentials /\ i < num_months_trend /\ Len(trend_log) = i
    /\ pc # "rerun" =>
          /\ credentials
          /\ Len(trend_log) = i
          /\ pc = "done" => i = num_months_trend
          /\ Len(api_requests) = 2 * Cardinality({k \in 1..i : Fetched(k)})
          /\ \A k \in 1..i :
                /\ trend_log[k].step = k - 1
                /\ Fetched(k) =>
                      /\ AnsweredFromApi(api_requests[CurrentRequestOf(k)],
                                         CurrentMonth(k - 1), trend_log[k].returned[1])
                      /\ AnsweredFromApi(api_requests[CurrentRequestOf(k) + 1],
                                         PreviousMonth(k - 1), trend_log[k].returned[2])

\* the run is over, a rate-limit or transport fault hit a fetch of one step
\* and a later step fetched rows from the API
C10_Witness ==
    /\ pc = "done"
    /\ \E a, b \in 1..Len(trend_log) :
          /\ a < b
          /\ Fetched(a) /\ Fetched(b)
          /\ api_requests[CurrentRequestOf(a)].response \in ConfinedMessages
          /\ trend_log[b].returned[1] # <<>>

\* the fetches logged so far: <<k, s>> is the current-period (s = 1) or the
\* previous-period (s = 2) fetch of logged step k
LoggedFetches == {f \in (1..Len(trend_log)) \X {1, 2} : Fetched(f[1])}
RequestOf(f) == api_requests[CurrentRequestOf(f[1]) + f[2] - 1]
ReturnedBy(f) == trend_log[f[1]].returned[f[2]]
MonthOf(f) == IF f[2] = 1 THEN CurrentMonth(f[1] - 1) ELSE PreviousMonth(f[1] - 1)
\* the request succeeded and the API held no rows for its range
FoundNoRows(f) ==
    /\ ~Faulted(RequestOf(f))
    /\ ApiRows(site_data, MonthOf(f), gsc_dimensions_for_query(report_level)) = <<>>

\* C11: the value a fetch returns to its caller after a fault cut it short
\* differs from the value a fetch returns after a successful request that
\* found no rows.
C11_PartialVersusNoData ==
    \A f, g \in LoggedFetches :
        Faulted(RequestOf(f)) /\ FoundNoRows(g) => ReturnedBy(f) # ReturnedBy(g)

\* the first month of the 16-month window
WindowStart == to_period(today.date) - 16
StartsBeforeWindow(p) == p < WindowStart
\* the month's last day is later than three days before today
EndsInsideLag(p) == DateOrdinal(LastOfMonth(p)) > DateOrdinal(today.date) - 3
RangeRejected(k) ==
    \/ StartsBeforeWindow(CurrentMonth(k)) \/ StartsBeforeWindow(PreviousMonth(k))
    \/ EndsInsideLag(CurrentMonth(k)) \/ EndsInsideLag(PreviousMonth(k))
\* the first month of the window is compared with today's time of day
OnWindowEdge(k) == PreviousMonth(k) = WindowStart /\ today.tod > 0
Skipped(entry) == entry.returned = <<>> /\ entry.outcome \notin {"no data found", "reported", "could not compute"}

\* C12: a trend step whose current or previous month starts before the
\* 16-month window or ends inside the 3-day lag is rejected without any
\* request being sent for it; whether a step is rejected depends on its own
\* range only (a step whose previous month is the first month of the window
\* is rejected too unless today is at midnight), and a step that is not
\* rejected sends its current-period request whatever was rejected before.
C12_RangeRejectionBeforeFetch ==
    [][ pc = "loop" /\ i < num_months_trend =>
          /\ RangeRejected(i) =>
                /\ api_requests' = api_requests
                /\ i' = i + 1
                /\ pc' = "loop"
                /\ Skipped(trend_log'[i'])
          /\ api_requests' = api_requests => RangeRejected(i) \/ OnWindowEdge(i)
          /\ api_requests' # api_requests =>
                /\ Len(api_requests') > Len(api_requests)
                /\ api_requests'[Len(api_requests) + 1].startDate = FirstOfMonth(CurrentMonth(i))
                /\ api_requests'[Len(api_requests) + 1].endDate = LastOfMonth(CurrentMonth(i))
      ]_vars

\* a step was rejected for the lag without a request, and the step after it,
\* whose range is valid, sent its two requests
C12_Witness ==
    /\ pc = "done"
    /\ Len(api_requests) = 2
    /\ \E a, b \in 1..Len(trend_log) :
          /\ a < b
          /\ Skipped(trend_log[a]) /\ EndsInsideLag(CurrentMonth(a - 1))
          /\ Fetched(b) /\ ~RangeRejected(b - 1)

(***************************************************************************)
(* SpecCompare: the comparison of one trend step, from the two raw answers *)
(* to the MoM table (lines 456-469).  api_data is the answer for the       *)
(* current month and raw_data the answer for the previous month;           *)
(* df_current and df_previous are the caller's two tables once             *)
(* calculate_mom_metrics has returned.                                     *)
(***************************************************************************)
\* a metric value of the response that is not a number
NotANumber == [k |-> "str", n |-> 0, d |-> 1]
CurrentRaw ==
    { RawRow(Some(<< <<2024, 3, 1>>, "/a" >>), 10, 100, 5),
      [RawRow(Some(<< <<2024, 3, 2>>, "/a" >>), 0, 50, 7) EXCEPT !.clicks = NotANumber],
      RawRow(Some(<< <<2024, 3, 3>>, "/b" >>), 4, 40, 2) }
PreviousRaw ==
    { RawRow(Some(<< <<2024, 2, 1>>, "/a" >>), 8, 80, 10),
      [RawRow(Some(<< <<2024, 2, 2>>, "/b" >>), 6, 60, 3) EXCEPT !.position = NotANumber],
      RawRow(Some(<< <<2024, 2, 3>>, "/b" >>), 0, 0, 4) }

InitCompare ==
    /\ pc = "compare"
    /\ report_level \in ReportLevels
    /\ requested_dimensions = gsc_dimensions_for_query(report_level)
    /\ api_data \in SeqsUpTo(CurrentRaw, MaxRows)
    /\ raw_data \in SeqsUpTo(PreviousRaw, MaxRows)
    /\ df_processed = EmptyFrame
    /\ credentials = TRUE
    /\ api_faults = <<>>
    /\ api_requests = <<>>
    /\ site_rows = <<>>
    /\ df_current = EmptyFrame
    /\ df_previous = EmptyFrame
    /\ current_agg = <<>>
    /\ previous_agg = <<>>
    /\ merged_df = <<>>
    /\ mom_df = EmptyFrame
    /\ mom_error = "none"
    /\ IdleTrend

\* lines 456-469
ComparePeriods ==
    /\ pc = "compare"
    /\ \E df_current_processed \in {process_gsc_api_response(api_data, requested_dimensions)} :
       \E df_previous_processed \in {process_gsc_api_response(raw_data, requested_dimensions)} :
          IF df_current_processed.rows = <<>> /\ df_previous_processed.rows = <<>>
          THEN /\ df_current' = df_current_processed
               /\ df_previous' = df_previous_processed
               /\ UNCHANGED <<current_agg, previous_agg, merged_df, mom_df, mom_error>>
          ELSE calculate_mom_metrics(df_current_processed, df_previous_processed, report_level)
    /\ pc' = "compared"
    /\ UNCHANGED <<report_level, credentials, api_faults, api_requests, site_rows,
                   raw_data, normVars, trendVars>>

NextCompare == ComparePeriods
SpecCompare == InitCompare /\ [][NextCompare]_vars

\* the table has a metric value that the normaliser coerced to NaN
HasCoerced(df) ==
    \E n \in DOMAIN df.rows :
        NaN \in {df.rows[n].clicks, df.rows[n].impressions, df.rows[n].position}

\* C13: calculate_mom_metrics leaves the two tables the caller passed in as
\* process_gsc_api_response made them (same rows, same columns, same
\* values), and the table it returns is neither of them.
C13_NoInPlaceMutation ==
    [][ pc = "compare" /\ pc' = "compared" =>
          /\ df_current' = process_gsc_api_response(api_data, requested_dimensions)
          /\ df_previous' = process_gsc_api_response(raw_data, requested_dimensions)
          /\ df_current'.rows # <<>> => mom_df' # df_current'
          /\ df_previous'.rows # <<>> => mom_df' # df_previous'
      ]_vars

\* both tables were aggregated and each holds a value coerced to NaN
C13_Witness ==
    /\ pc = "compared"
    /\ current_agg # <<>> /\ previous_agg # <<>>
    /\ HasCoerced(df_current) /\ HasCoerced(df_previous)

NextFetch == FetchPeriod
SpecFetch == InitFetch /\ [][NextFetch]_vars

\* the number of times the executor raises before it succeeds
FaultsScripted ==
    Len(api_faults) + Cardinality({j \in DOMAIN api_requests : api_requests[j].response # "ok"})
\* the first fetch of the period has returned to its caller
FirstFetchReturned == pc = "fetched" /\ credentials /\ Len(api_requests) = 1

(* C1: pagination completeness -- a fetch whose requests were all answered  *)
(* returns exactly the N rows the API holds, in their order, for every N in *)
(* {0, B-1, B, B+1, 3B}.                                                    *)
C1_PaginationCompleteness ==
    (FirstFetchReturned /\ FaultsScripted = 0) => raw_data = site_rows

(* C2: retry bound -- when the executor raises RateLimited k < 3 times and  *)
(* then succeeds, the fetch returns the full data (stated for N <= B, where *)
(* one page holds the full data).                                           *)
C2_RetryBound ==
    (/\ FirstFetchReturned
     /\ FaultsScripted < 3
     /\ \A j \in DOMAIN api_faults : api_faults[j] = RateLimited
     /\ \A j \in DOMAIN api_requests : api_requests[j].response \in {"ok", RateLimited}
     /\ Len(site_rows) <= row_limit)
    => raw_data = site_rows

====
